---- MODULE Spec2Model ----
(***************************************************************************)
(* State machine of the shopping-list component App (src/src/App.tsx).     *)
(* The state is the six useState cells of App plus the environment the     *)
(* handlers arm: the pending setTimeout callbacks.  A reading of           *)
(* Date.now() is an input of addItem: the wall clock gives no guarantee    *)
(* that two readings differ.  Every handler runs to completion, so each is *)
(* one action.  A string the code lower-cases (nome) is a sequence of      *)
(* characters; the other strings are opaque values.                        *)
(***************************************************************************)
EXTENDS Integers, Sequences, FiniteSets

VARIABLES items, archivedItems, editingItem, alert, showArchived, newItem,
          timers

vars == <<items, archivedItems, editingItem, alert, showArchived, newItem,
          timers>>

(* ---------------------------- bounds ---------------------------------- *)

\* number of items ever created (cap on successful adds)
MaxItems == 2
\* number of setTimeout callbacks pending at once
MaxTimers == 2

(* ---------------------------- values ---------------------------------- *)

\* null of `Item | null` and `string | null`; a present value v is <<v>>
Null == <<>>

\* What the user types and what Date.now() returns: two spellings of one
\* name and another name, a zero and a positive price, two clock readings.
\* The name input starts empty and the price input at 0 (EmptyDraft), so
\* the empty name is covered without being typed.  A quantity below 1 is
\* typed, and clamped; the category and the suggester keep their defaults.
Entradas ==
  [nome |-> {<<"P", "a">>, <<"p", "A">>, <<"M">>},
   quantidade |-> {0 - 1, 0, 1},
   preco |-> {0, 1},
   categoria |-> {""},
   sugeridoPor |-> {""},
   clock |-> {1, 2}]

\* Values typed into the form fields in the second specification: the name
\* input is also cleared, a quantity above 1 and one below 1 are typed, the
\* price is 0 or 2.
EntradasCampos ==
  [nome |-> {<<>>, <<"M">>},
   quantidade |-> {0 - 1, 0, 1, 2},
   preco |-> {0, 2},
   categoria |-> {""},
   sugeridoPor |-> {""},
   clock |-> {1, 2}]

\* the ids archiveItem is called with: every clock reading and one never read
Ids == {1, 2, 3}

MsgPreencha == "Por favor, preencha o nome e o preço do item."
MsgJaExiste == "Este item já existe na lista!"
MsgOutroItem == "Já existe outro item com este nome!"

(* --------------------------- pure helpers ------------------------------ *)

\* String.prototype.toLowerCase on one character of the modelled alphabet
LowerChar(c) ==
  CASE c = "P" -> "p"
    [] c = "A" -> "a"
    [] c = "M" -> "m"
    [] OTHER -> c

\* String.prototype.toLowerCase
toLowerCase(s) == [i \in 1..Len(s) |-> LowerChar(s[i])]

\* MathMax1 as it would be if the typed number were stored as typed
MathNoClamp(x) == x

\* Math.max(1, x)
MathMax1(x) == IF x > 1 THEN x ELSE 1

\* the initial value of newItem, also the value addItem resets it to
EmptyDraft ==
  [nome |-> <<>>, quantidade |-> 1, preco |-> 0, categoria |-> "",
   sugeridoPor |-> ""]

\* WithId as it would be if the price were not copied from the draft
WithIdNoPreco(d, t) ==
  [id |-> t, nome |-> d.nome, quantidade |-> d.quantidade, preco |-> 0,
   categoria |-> d.categoria, sugeridoPor |-> d.sugeridoPor]

\* { ...newItem, id: t }
WithId(d, t) ==
  [id |-> t, nome |-> d.nome, quantidade |-> d.quantidade, preco |-> d.preco,
   categoria |-> d.categoria, sugeridoPor |-> d.sugeridoPor]

\* s.filter(i => i.id !== id)
RECURSIVE Filter(_, _)
Filter(s, id) ==
  IF s = <<>> THEN <<>>
  ELSE IF Head(s).id # id THEN <<Head(s)>> \o Filter(Tail(s), id)
       ELSE Filter(Tail(s), id)

\* Find as it would be if the test were always true (`=` for `===`)
FindFirst(s, id) == IF s = <<>> THEN Null ELSE <<Head(s)>>

\* Array.prototype.find: the first element with the id, Null when none
RECURSIVE Find(_, _)
Find(s, id) ==
  IF s = <<>> THEN Null
  ELSE IF Head(s).id = id THEN <<Head(s)>> ELSE Find(Tail(s), id)

\* addItemExists as it would be if the archived list were searched too
addItemExistsAnyList ==
  \/ \E k \in 1..Len(items) : toLowerCase(items[k].nome) = toLowerCase(newItem.nome)
  \/ \E k \in 1..Len(archivedItems) :
       toLowerCase(archivedItems[k].nome) = toLowerCase(newItem.nome)

\* items.some(item => item.nome.toLowerCase() === newItem.nome.toLowerCase())
addItemExists ==
  \E k \in 1..Len(items) : toLowerCase(items[k].nome) = toLowerCase(newItem.nome)

\* saveEditItemExists as it would be if the names were compared as typed
saveEditItemExistsExact ==
  \E k \in 1..Len(items) :
    /\ items[k].id # editingItem[1].id
    /\ items[k].nome = editingItem[1].nome

\* items.some(item => item.id !== editingItem.id && same lower-cased nome)
saveEditItemExists ==
  \E k \in 1..Len(items) :
    /\ items[k].id # editingItem[1].id
    /\ toLowerCase(items[k].nome) = toLowerCase(editingItem[1].nome)

\* Replace as it would be if only the name of the draft were merged in
ReplaceNomeOnly(s, e) ==
  [k \in 1..Len(s) |->
     IF s[k].id = e.id THEN [s[k] EXCEPT !.nome = e.nome] ELSE s[k]]

\* s.map(item => item.id === e.id ? e : item)
Replace(s, e) ==
  [k \in 1..Len(s) |-> IF s[k].id = e.id THEN e ELSE s[k]]

\* items.reduce((total, item) => total + item.preco * item.quantidade, 0)
RECURSIVE Reduce(_, _)
Reduce(s, total) ==
  IF s = <<>> THEN total
  ELSE Reduce(Tail(s), total + (Head(s).preco * Head(s).quantidade))

calculateTotal == Reduce(items, 0)

(* ----------------------------- actions --------------------------------- *)

Init ==
  /\ items = <<>>
  /\ archivedItems = <<>>
  /\ editingItem = Null
  /\ alert = Null
  /\ showArchived = FALSE
  /\ newItem = EmptyDraft
  /\ timers = 0

\* showAlert as it would be if it armed the timer without setting the message
showAlertNoMessage(message) ==
  /\ timers < MaxTimers
  /\ alert' = alert
  /\ timers' = timers + 1

\* showAlert: set the message and arm one more timer
showAlert(message) ==
  /\ timers < MaxTimers
  /\ alert' = <<message>>
  /\ timers' = timers + 1

\* timerFires as it would be if the callback left the alert as it is
timerFiresKeepingAlert ==
  /\ timers > 0
  /\ timers' = timers - 1
  /\ UNCHANGED <<items, archivedItems, editingItem, showArchived, newItem, alert>>

\* the callback armed by showAlert runs
timerFires ==
  /\ timers > 0
  /\ alert' = Null
  /\ timers' = timers - 1
  /\ UNCHANGED <<items, archivedItems, editingItem, showArchived, newItem>>

setNewItemNome(v) ==
  /\ newItem' = [newItem EXCEPT !.nome = v]
  /\ UNCHANGED <<items, archivedItems, editingItem, alert, showArchived, timers>>

setNewItemQuantidade(v) ==
  /\ newItem' = [newItem EXCEPT !.quantidade = MathMax1(v)]
  /\ UNCHANGED <<items, archivedItems, editingItem, alert, showArchived, timers>>

setNewItemPreco(v) ==
  /\ newItem' = [newItem EXCEPT !.preco = v]
  /\ UNCHANGED <<items, archivedItems, editingItem, alert, showArchived, timers>>

setNewItemCategoria(v) ==
  /\ newItem' = [newItem EXCEPT !.categoria = v]
  /\ UNCHANGED <<items, archivedItems, editingItem, alert, showArchived, timers>>

setNewItemSugeridoPor(v) ==
  /\ newItem' = [newItem EXCEPT !.sugeridoPor = v]
  /\ UNCHANGED <<items, archivedItems, editingItem, alert, showArchived, timers>>

\* addItem, with t the reading Date.now() returns if the add gets that far
addItem(t) ==
  IF newItem.nome = <<>> \/ newItem.preco <= 0
  THEN /\ showAlert(MsgPreencha)
       /\ UNCHANGED <<items, archivedItems, editingItem, showArchived, newItem>>
  ELSE IF addItemExists
  THEN /\ showAlert(MsgJaExiste)
       /\ UNCHANGED <<items, archivedItems, editingItem, showArchived, newItem>>
  ELSE /\ Len(items) + Len(archivedItems) < MaxItems
       /\ items' = Append(items, WithId(newItem, t))
       /\ newItem' = EmptyDraft
       /\ UNCHANGED <<archivedItems, editingItem, alert, showArchived, timers>>

archiveItem(id) ==
  LET item == Find(items, id)
  IN  IF item # Null
      THEN /\ archivedItems' = Append(archivedItems, item[1])
           /\ items' = Filter(items, id)
           /\ UNCHANGED <<editingItem, alert, showArchived, newItem, timers>>
      ELSE UNCHANGED vars

startEditing(item) ==
  /\ editingItem' = <<item>>
  /\ UNCHANGED <<items, archivedItems, alert, showArchived, newItem, timers>>

\* setEditingItemNome as it would be if the draft were the stored object
setEditingItemNomeInPlace(v) ==
  /\ editingItem # Null
  /\ editingItem' = <<[editingItem[1] EXCEPT !.nome = v]>>
  /\ items' = [k \in 1..Len(items) |->
                IF items[k].id = editingItem[1].id
                THEN [items[k] EXCEPT !.nome = v] ELSE items[k]]
  /\ UNCHANGED <<archivedItems, alert, showArchived, newItem, timers>>

setEditingItemNome(v) ==
  /\ editingItem # Null
  /\ editingItem' = <<[editingItem[1] EXCEPT !.nome = v]>>
  /\ UNCHANGED <<items, archivedItems, alert, showArchived, newItem, timers>>

setEditingItemQuantidade(v) ==
  /\ editingItem # Null
  /\ editingItem' = <<[editingItem[1] EXCEPT !.quantidade = MathMax1(v)]>>
  /\ UNCHANGED <<items, archivedItems, alert, showArchived, newItem, timers>>

setEditingItemPreco(v) ==
  /\ editingItem # Null
  /\ editingItem' = <<[editingItem[1] EXCEPT !.preco = v]>>
  /\ UNCHANGED <<items, archivedItems, alert, showArchived, newItem, timers>>

setEditingItemCategoria(v) ==
  /\ editingItem # Null
  /\ editingItem' = <<[editingItem[1] EXCEPT !.categoria = v]>>
  /\ UNCHANGED <<items, archivedItems, alert, showArchived, newItem, timers>>

setEditingItemSugeridoPor(v) ==
  /\ editingItem # Null
  /\ editingItem' = <<[editingItem[1] EXCEPT !.sugeridoPor = v]>>
  /\ UNCHANGED <<items, archivedItems, alert, showArchived, newItem, timers>>

\* saveEdit as it would be if it validated the draft the way addItem does
saveEditValidated ==
  IF editingItem # Null
  THEN IF editingItem[1].nome = <<>> \/ editingItem[1].preco <= 0
       THEN /\ showAlert(MsgPreencha)
            /\ UNCHANGED <<items, archivedItems, editingItem, showArchived, newItem>>
       ELSE IF saveEditItemExists
            THEN /\ showAlert(MsgOutroItem)
                 /\ UNCHANGED <<items, archivedItems, editingItem, showArchived, newItem>>
            ELSE /\ items' = Replace(items, editingItem[1])
                 /\ editingItem' = Null
                 /\ UNCHANGED <<archivedItems, alert, showArchived, newItem, timers>>
  ELSE UNCHANGED vars

saveEdit ==
  IF editingItem # Null
  THEN IF saveEditItemExists
       THEN /\ showAlert(MsgOutroItem)
            /\ UNCHANGED <<items, archivedItems, editingItem, showArchived, newItem>>
       ELSE /\ items' = Replace(items, editingItem[1])
            /\ editingItem' = Null
            /\ UNCHANGED <<archivedItems, alert, showArchived, newItem, timers>>
  ELSE UNCHANGED vars

cancelEdit ==
  /\ editingItem' = Null
  /\ UNCHANGED <<items, archivedItems, alert, showArchived, newItem, timers>>

\* toggleShowArchived as it would be if leaving a view closed the edit session
toggleShowArchivedClosingEdit ==
  /\ showArchived' = ~showArchived
  /\ editingItem' = Null
  /\ UNCHANGED <<items, archivedItems, alert, newItem, timers>>

toggleShowArchived ==
  /\ showArchived' = ~showArchived
  /\ UNCHANGED <<items, archivedItems, editingItem, alert, newItem, timers>>

Next(E) ==
  \/ \E v \in E.nome : setNewItemNome(v)
  \/ \E v \in E.quantidade : setNewItemQuantidade(v)
  \/ \E v \in E.preco : setNewItemPreco(v)
  \/ \E v \in E.categoria : setNewItemCategoria(v)
  \/ \E v \in E.sugeridoPor : setNewItemSugeridoPor(v)
  \/ \E t \in E.clock : addItem(t)
  \/ \E id \in Ids : archiveItem(id)
  \/ \E k \in 1..Len(items) : startEditing(items[k])
  \/ \E v \in E.nome : setEditingItemNome(v)
  \/ \E v \in E.quantidade : setEditingItemQuantidade(v)
  \/ \E v \in E.preco : setEditingItemPreco(v)
  \/ \E v \in E.categoria : setEditingItemCategoria(v)
  \/ \E v \in E.sugeridoPor : setEditingItemSugeridoPor(v)
  \/ saveEdit
  \/ cancelEdit
  \/ toggleShowArchived
  \/ timerFires

\* every handler, called in any order
Spec == Init /\ [][Next(Entradas)]_vars

\* the same handlers driven with the inputs of EntradasCampos
SpecCampos == Init /\ [][Next(EntradasCampos)]_vars

(* ------------------ the handlers as the view offers them ----------------- *)

\* addFormShown as it would be if the add form were rendered in both views
addFormAlwaysShown == TRUE

\* {!showArchived && (<the add form>)}
addFormShown == ~showArchived

\* items.map(item => editingItem?.id === item.id ? <the edit form> : ...),
\* rendered in the branch !showArchived
editFormShown(item) ==
  /\ ~showArchived
  /\ editingItem # Null
  /\ editingItem[1].id = item.id

\* cardShown as it would be if the item under edit kept its card
cardShownWhileEditing(item) == ~showArchived

\* ... : renderItemCard(item), the card with the edit and archive buttons:
\* the cards of the archived view are rendered without buttons
cardShown(item) ==
  /\ ~showArchived
  /\ ~(editingItem # Null /\ editingItem[1].id = item.id)

\* some active item is rendered as the edit form
editFormOnScreen == \E k \in 1..Len(items) : editFormShown(items[k])

NextUI(E) ==
  \/ addFormShown /\ \E v \in E.nome : setNewItemNome(v)
  \/ addFormShown /\ \E v \in E.quantidade : setNewItemQuantidade(v)
  \/ addFormShown /\ \E v \in E.preco : setNewItemPreco(v)
  \/ addFormShown /\ \E v \in E.categoria : setNewItemCategoria(v)
  \/ addFormShown /\ \E v \in E.sugeridoPor : setNewItemSugeridoPor(v)
  \/ addFormShown /\ \E t \in E.clock : addItem(t)
  \/ \E k \in 1..Len(items) : cardShown(items[k]) /\ startEditing(items[k])
  \/ \E k \in 1..Len(items) : cardShown(items[k]) /\ archiveItem(items[k].id)
  \/ editFormOnScreen /\ \E v \in E.nome : setEditingItemNome(v)
  \/ editFormOnScreen /\ \E v \in E.quantidade : setEditingItemQuantidade(v)
  \/ editFormOnScreen /\ \E v \in E.preco : setEditingItemPreco(v)
  \/ editFormOnScreen /\ \E v \in E.categoria : setEditingItemCategoria(v)
  \/ editFormOnScreen /\ \E v \in E.sugeridoPor : setEditingItemSugeridoPor(v)
  \/ editFormOnScreen /\ saveEdit
  \/ editFormOnScreen /\ cancelEdit
  \/ toggleShowArchived
  \/ timerFires

SpecUI == Init /\ [][NextUI(Entradas)]_vars

\* the view-offered handlers, with the event loop running every armed timer
\* callback in the end
SpecFair == Init /\ [][NextUI(Entradas)]_vars /\ WF_vars(timerFires)

(* ------------------------------ claims -------------------------------- *)

\* two names are equal when compared case-insensitively
SameName(a, b) == toLowerCase(a) = toLowerCase(b)

\* the ids of the entries of a list
IdsOf(s) == {s[k].id : k \in 1..Len(s)}

\* what the claims require of a draft for an add to succeed
AddAccepts ==
  /\ newItem.nome # <<>>
  /\ newItem.preco > 0
  /\ \A k \in 1..Len(items) : ~SameName(items[k].nome, newItem.nome)

\* a step of addItem, whatever the clock reads
AddStep == \E t \in Entradas.clock : addItem(t)

\* C1: in every reachable state no two distinct entries of the active list
\* have names that are equal when compared case-insensitively.
C1_ActiveNamesUnique ==
  \A i, j \in 1..Len(items) :
    i # j => ~SameName(items[i].nome, items[j].nome)

\* C2: an add succeeds (the active list grows) if and only if the draft has
\* a non-empty name, a price > 0 and no active item has the same name
\* case-insensitively; the archived list plays no part in the outcome.
C2_AddSucceedsIff ==
  [][AddStep => ((Len(items') = Len(items) + 1) <=> AddAccepts)]_vars

\* C2's case: a name that an archived item bears has been added again
C2_Witness ==
  /\ newItem = EmptyDraft
  /\ \E i \in 1..Len(items), j \in 1..Len(archivedItems) :
       /\ items[i].nome = archivedItems[j].nome
       /\ items[i].id # archivedItems[j].id

\* C3: a rejected add leaves the active list, the archived list, the draft
\* and the edit session as they were and sets the alert to a non-empty
\* message.
C3_RejectedAddKeepsState ==
  [][(AddStep /\ ~AddAccepts) =>
       /\ items' = items
       /\ archivedItems' = archivedItems
       /\ newItem' = newItem
       /\ editingItem' = editingItem
       /\ alert' # Null
       /\ alert'[1] # ""]_vars

\* C3's case: an add was rejected for a name collision while an edit session
\* was open, and the draft still holds what was typed
C3_Witness ==
  /\ alert = <<MsgJaExiste>>
  /\ editingItem # Null
  /\ newItem.nome # <<>>
  /\ newItem.preco > 0

RemoveAt(s, k) == SubSeq(s, 1, k - 1) \o SubSeq(s, k + 1, Len(s))

\* a step of archiveItem for the id
ArchiveStep(id) == archiveItem(id)

\* C5: archiving an id present in the active list appends exactly that item,
\* unchanged, to the end of the archived list and removes exactly that item
\* from the active list; the other entries of both lists keep their values
\* and their order.
C5_ArchiveMovesExactlyOne ==
  [][\A id \in Ids :
       (ArchiveStep(id) /\ id \in IdsOf(items)) =>
         \E k \in 1..Len(items) :
           /\ items[k].id = id
           /\ archivedItems' = Append(archivedItems, items[k])
           /\ items' = RemoveAt(items, k)]_vars

\* C6: archiving an id that is not in the active list changes neither list
\* and sets no alert; and an archive of an id leaves the id absent from the
\* active list, so that archiving it a second time is such a call.
C6_ArchiveAbsentIsNoOp ==
  [][\A id \in Ids :
       /\ (ArchiveStep(id) /\ id \notin IdsOf(items)) =>
            /\ items' = items
            /\ archivedItems' = archivedItems
            /\ alert' = alert
            /\ timers' = timers
       /\ ArchiveStep(id) => id \notin IdsOf(items')]_vars

\* C6's case: an id that was archived is no longer in the active list, which
\* still holds another item
C6_Witness ==
  /\ items # <<>>
  /\ \E j \in 1..Len(archivedItems) : archivedItems[j].id \notin IdsOf(items)

\* the draft of the edit session bears the name of an active item with
\* another id
SaveCollides ==
  \E k \in 1..Len(items) :
    /\ items[k].id # editingItem[1].id
    /\ SameName(items[k].nome, editingItem[1].nome)

\* C7: a save-edit whose draft bears, case-insensitively, the name of an
\* active item with a different id leaves both lists unchanged, keeps the
\* session in Editing with the draft as attempted and sets the alert.
C7_CollidingSaveKeepsSession ==
  [][(saveEdit /\ editingItem # Null /\ SaveCollides) =>
       /\ items' = items
       /\ archivedItems' = archivedItems
       /\ editingItem' = editingItem
       /\ alert' # Null
       /\ alert'[1] # ""]_vars

\* C7's case: a save was refused for a draft whose name differs from the
\* colliding item's only in case, and the session is still open on it
C7_Witness ==
  /\ alert = <<MsgOutroItem>>
  /\ editingItem # Null
  /\ \E k \in 1..Len(items) :
       /\ items[k].id # editingItem[1].id
       /\ SameName(items[k].nome, editingItem[1].nome)
       /\ items[k].nome # editingItem[1].nome

EditDraftStep ==
  \/ \E k \in 1..Len(items) : startEditing(items[k])
  \/ \E v \in Entradas.nome : setEditingItemNome(v)
  \/ \E v \in Entradas.quantidade : setEditingItemQuantidade(v)
  \/ \E v \in Entradas.preco : setEditingItemPreco(v)
  \/ \E v \in Entradas.categoria : setEditingItemCategoria(v)
  \/ \E v \in Entradas.sugeridoPor : setEditingItemSugeridoPor(v)
  \/ cancelEdit

\* C9: begin-edit, every edit-field update and cancel-edit leave both lists
\* unchanged, and cancel-edit always ends the session.
C9_EditDraftLeavesLists ==
  [][/\ EditDraftStep => (items' = items /\ archivedItems' = archivedItems)
     /\ cancelEdit => editingItem' = Null]_vars

\* C9's case: the draft of the open session has been changed and the stored
\* item it was copied from has not
C9_Witness ==
  /\ editingItem # Null
  /\ \E k \in 1..Len(items) :
       /\ items[k].id = editingItem[1].id
       /\ items[k].nome # editingItem[1].nome
       /\ items[k].preco # editingItem[1].preco

\* the sum of price times quantity over the first n entries of s
RECURSIVE SumTo(_, _)
SumTo(s, n) ==
  IF n = 0 THEN 0 ELSE SumTo(s, n - 1) + (s[n].preco * s[n].quantidade)

\* C10: the total is the sum over the active items of price times quantity,
\* 0 for an empty active list, whatever the archived list holds; archiving
\* an item lowers the total by that item's price times quantity.
C10_TotalIsSumOfActive ==
  [][/\ calculateTotal = SumTo(items, Len(items))
     /\ items = <<>> => calculateTotal = 0
     /\ \A id \in Ids :
          (ArchiveStep(id) /\ id \in IdsOf(items)) =>
            calculateTotal' =
              calculateTotal
                - (Find(items, id)[1].preco * Find(items, id)[1].quantidade)]_vars

\* the part of C10 that is a property of each state
C10_TotalIsSumInEveryState ==
  /\ calculateTotal = SumTo(items, Len(items))
  /\ items = <<>> => calculateTotal = 0

\* C11: when an alert is set while the clear timer of an earlier alert is
\* still pending, the earlier timer is superseded: its firing does not clear
\* the newer message, which stays until its own timer fires.
C11_EarlierTimerSuperseded ==
  [][(timerFires /\ timers > 1) => alert' = alert]_vars

\* the active list followed by the archived list
AllItems == items \o archivedItems

\* C12: an archived item stays in the archived list at its position with its
\* field values, the archived list only grows by appending, and no step
\* brings an archived item back into the active list.
C12_ArchivedIsTerminal ==
  [][/\ Len(archivedItems') >= Len(archivedItems)
     /\ SubSeq(archivedItems', 1, Len(archivedItems)) = archivedItems
     /\ \A id \in IdsOf(archivedItems) : id \notin IdsOf(items')]_vars

\* the part of C12 that is about the archived list alone
C12_ArchivedOnlyAppends ==
  [][/\ Len(archivedItems') >= Len(archivedItems)
     /\ SubSeq(archivedItems', 1, Len(archivedItems)) = archivedItems]_vars

\* C13: no item is lost or duplicated: the two lists together gain exactly
\* one entry on a successful add and keep their joint length on every other
\* step, so the joint length is the number of successful adds.
C13_NoItemLostOrDuplicated ==
  [][Len(AllItems') =
       Len(AllItems) + (IF AddStep /\ AddAccepts THEN 1 ELSE 0)]_vars

\* C14: no two entries of the two lists share an id, adds at one clock
\* reading included, and no step changes the id of an entry or of the edit
\* draft.
C14_IdsUniqueAndImmutable ==
  [][/\ \A i, j \in 1..Len(AllItems) :
          i # j => AllItems[i].id # AllItems[j].id
     /\ Len(items') = Len(items) =>
          \A k \in 1..Len(items) : items'[k].id = items[k].id
     /\ (editingItem # Null /\ editingItem' # Null /\ ~\E k \in 1..Len(items) : startEditing(items[k]))
          => editingItem'[1].id = editingItem[1].id]_vars

\* the part of C14 that is about the id of an entry under edits
C14_EditsKeepIds ==
  [][/\ Len(items') = Len(items) =>
          \A k \in 1..Len(items) : items'[k].id = items[k].id
     /\ (editingItem # Null /\ editingItem' # Null /\ ~\E k \in 1..Len(items) : startEditing(items[k]))
          => editingItem'[1].id = editingItem[1].id]_vars

\* C16: save-edit rejects a draft only for a case-insensitive name collision
\* with another active item; a draft that does not collide is committed and
\* the session closed whatever its name and price, so a draft with a price
\* <= 0 or an empty name, which add rejects, is accepted by save-edit.
C16_SaveRejectsOnlyCollision ==
  [][(saveEdit /\ editingItem # Null) =>
       /\ (editingItem' = editingItem /\ items' = items) <=> SaveCollides
       /\ ~SaveCollides =>
            /\ editingItem' = Null
            /\ alert' = alert
            /\ \A k \in 1..Len(items) :
                 items[k].id = editingItem[1].id => items'[k] = editingItem[1]]_vars

\* C16's case: save-edit has stored an empty name with a price of 0, the
\* draft add has just rejected
C16_Witness ==
  /\ editingItem = Null
  /\ newItem.nome = <<>>
  /\ newItem.preco = 0
  /\ alert = <<MsgPreencha>>
  /\ \E k \in 1..Len(items) : items[k].nome = <<>> /\ items[k].preco = 0

\* C19: the quantity of the new-item draft, of the edit draft and of every
\* entry of both lists is at least 1, whatever integer is typed into a
\* quantity field.
C19_QuantidadeAtLeastOne ==
  /\ newItem.quantidade >= 1
  /\ editingItem # Null => editingItem[1].quantidade >= 1
  /\ \A k \in 1..Len(AllItems) : AllItems[k].quantidade >= 1

\* C19's case: a quantity above 1 has been typed into both forms and stored
\* in both lists while the new-item draft has been set back by a typed 0
C19_Witness ==
  /\ newItem.quantidade = 1
  /\ newItem.nome # <<>>
  /\ editingItem # Null
  /\ editingItem[1].quantidade = 2
  /\ \E k \in 1..Len(items) : items[k].quantidade = 2
  /\ \E k \in 1..Len(archivedItems) : archivedItems[k].quantidade = 2

\* C17: a step that changes the view flag changes nothing else of the active
\* list, the archived list, the new-item draft, the edit session and the
\* alert, and while the Archived view stays on the edit session keeps its
\* draft: a session open before the switch is open with the same draft after
\* switching back.
C17_ToggleChangesOnlyView ==
  [][/\ showArchived' # showArchived =>
          UNCHANGED <<items, archivedItems, newItem, editingItem, alert>>
     /\ (showArchived /\ showArchived') => editingItem' = editingItem]_vars

\* C17's case: the Archived view is on while a session with a changed draft,
\* a filled new-item draft and an alert are there
C17_Witness ==
  /\ showArchived
  /\ alert # Null
  /\ newItem # EmptyDraft
  /\ editingItem # Null
  /\ \E k \in 1..Len(items) :
       items[k].id = editingItem[1].id /\ items[k] # editingItem[1]

\* C18: while the view is Archived no step changes the active list, the
\* archived list, the new-item draft or the edit draft: none of add,
\* new-item field update, begin-edit, edit-field update, save-edit,
\* cancel-edit and archive is offered there.
C18_ArchivedViewIsReadOnly ==
  [][showArchived =>
       UNCHANGED <<items, archivedItems, newItem, editingItem>>]_vars

\* C18's case: the Archived view shows an archived item while an active item
\* and an open session exist
C18_Witness ==
  /\ showArchived
  /\ archivedItems # <<>>
  /\ items # <<>>
  /\ editingItem # Null

\* C20: under the operations the view offers, whenever a session is open the
\* id of the edit draft is the id of an item of the active list.
C20_EditedItemIsActive ==
  editingItem # Null => editingItem[1].id \in IdsOf(items)

\* C20's case: an item has been archived while the session on another item
\* was open
C20_Witness ==
  /\ editingItem # Null
  /\ ~showArchived
  /\ \E k \in 1..Len(items) : items[k] # editingItem[1] /\ items[k].id = editingItem[1].id
  /\ \E k \in 1..Len(archivedItems) : archivedItems[k].id # editingItem[1].id

\* with a timer pending every handler can still be called: none of them
\* waits for the timer (the bounds of the model aside)
C15_NoOperationBlocked ==
  (timers > 0 /\ timers < MaxTimers /\ Len(AllItems) < MaxItems) =>
    /\ ENABLED AddStep
    /\ ENABLED saveEdit
    /\ ENABLED cancelEdit
    /\ ENABLED toggleShowArchived
    /\ \A id \in Ids : ENABLED archiveItem(id)

\* C15: after an alert is set the alert slot eventually becomes empty again
\* (the timer armed with it always fires), and no operation waits for or is
\* blocked by a pending timer.
C15_AlertEventuallyCleared ==
  /\ [](alert # Null => timers > 0)
  /\ []C15_NoOperationBlocked
  /\ (alert # Null) ~> (alert = Null)

\* C15's case: an alert is shown, its timer is the only one pending, and an
\* item has been added since the alert was set
C15_Witness ==
  /\ alert = <<MsgPreencha>>
  /\ timers = 1
  /\ items # <<>>

====
